---- MODULE Spec2Model ----
(***************************************************************************)
(* Deduplication lock store of the solanasigbot Telegram bots.             *)
(*                                                                         *)
(* Lock-based variants (src/bot1.js, src/unnamed/part_001, second program  *)
(* of src/bot.js): checkAndMark...AsProcessed takes a Redis lock with      *)
(* SET NX EX 600, reads the processed set, adds the identifier to it and   *)
(* stores metadata; the polling loop then filters, notifies and releases.  *)
(* Every Redis call is one atomic step of the store; a bot instance is a   *)
(* sequential process whose position is pc[i].                             *)
(*                                                                         *)
(* Check-then-act variants (first and third program of src/bot.js):        *)
(* isTokenProcessed, filters, notification, markTokenAsProcessed.          *)
(***************************************************************************)
EXTENDS Integers, FiniteSets, Sequences, TLC

\* ---------------------------------------------------------------- bounds
NumInst == 2        \* bot processes sharing one Redis namespace
NumIds == 2         \* distinct token / pool addresses returned by the API
MaxSent == 2        \* the notification counters saturate here
MaxErrorCount == 10 \* errorCount is followed up to this value

\* ------------------------------------------------------ program constants
LOCK_EX == 600      \* EX: 600, lifetime of a signal lock in seconds
MAX_PAGES == 10     \* pages of new_pools fetched per cycle
CYCLE_DELAY == 60000    \* milliseconds between monitoring cycles
maxAgeMinutes == 360    \* isTokenNewEnough: const maxAgeMinutes = 360
minLiquidity == 1000    \* config.minLiquidity: parseInt(MIN_LIQUIDITY) || 1000
maxAgeHours == 6        \* part_001, isTokenNewEnough: const maxAgeHours = 6
maxMarketCap == 15000000            \* part_001, config.maxMarketCap
graduate_minLiquidity == 10000      \* part_001, config.minLiquidity

Inst == 1..NumInst
Ids == 1..NumIds
Orphan == NumInst + 1   \* owner of a lock whose creating process has died

VARIABLES
  isReady,          \* redisClient.isReady: Redis is reachable and its calls succeed
  signalLocks,      \* raydium_bot1:signal_locks:<id>  -> lock record or NoLock
  processedTokens,  \* raydium_bot1:processed_tokens   (Redis set)
  tokenMetadata,    \* raydium_bot1:token_metadata:<id> -> "none" | "stored" | "expiring"
  meteoraProcessedTokens, \* meteora:processed_tokens  (Redis set)
  meteoraTokenMetadata,   \* meteora:token_metadata:<id>
  meteoraSignalLocks,     \* meteora:signal_locks:<id>  -> lock record or NoLock
  meteoraProcessedPools,  \* meteora:processed_pools  (Redis set)
  meteoraPoolMetadata,    \* meteora:pool_metadata:<id>
  pc,               \* position of instance i in its program
  cur,              \* identifier instance i is working on
  res,              \* outcome of the running / last store call of instance i
  pre,              \* what the store held for cur[i] when the SET NX of that call ran
  lockKeys,         \* result of redisClient.keys(lockPattern) in main()
  sent,             \* sent[x]: notifications delivered for x (saturating)
  abandoned,        \* ids whose successful claimant died before releasing
  rejected,         \* ids a claimant got "claimed" for and then filtered out
  marked,           \* ids a completed call has marked as processed
  count,            \* count[i]: what getProcessedTokensCount last returned to i
  stalled,          \* Redis holds the connection open and answers no command
  unsent,           \* ids a claimant tried to notify when the send failed or timed out
  pools,            \* pools[x]: what the new_pools API reports for the pool of token x
  errorCount,       \* errorCount of the monitoring loop of instance i
  hasProcessedAnyPage,  \* hasProcessedAnyPage of the running cycle
  page,             \* page of the for loop over the pages
  fetched,          \* some page fetch of the running cycle returned data
  status,           \* error.response?.status of the last critical error, 0 when none
  waitTime,         \* milliseconds of the sleep that ends the cycle: waitTime, or
                    \* recoveryTime after a critical error
  state,            \* state[i].processedTokens: the in-memory Set of process i
  boostedTokens,    \* what is left of the list the for-of loop of process i walks
  unfetched         \* addresses whose pair details some iteration failed to fetch

vars == <<isReady, signalLocks, processedTokens, tokenMetadata,
          meteoraProcessedTokens, meteoraTokenMetadata,
          meteoraSignalLocks, meteoraProcessedPools, meteoraPoolMetadata,
          pc, cur, res, pre, lockKeys, sent, abandoned, rejected, marked, count,
          stalled, unsent, pools, errorCount, hasProcessedAnyPage, page, fetched, status,
          waitTime, state, boostedTokens, unfetched>>

NoLock == [owner |-> 0, ex |-> 0]
NoPre == [lock |-> FALSE, proc |-> FALSE, aband |-> FALSE, rej |-> FALSE,
          unsent |-> FALSE]

Min(a, b) == IF a < b THEN a ELSE b

Cycle == <<errorCount, hasProcessedAnyPage, page, fetched, status, waitTime>>
Boosted == <<state, boostedTokens, unfetched>>
Monitor == <<stalled, unsent, pools, Cycle, Boosted>>

\* A pool as extractPoolData reads it: the dex id, whether extraction
\* succeeded, ageData.ageInMinutes and pricing.reserveUsd.
FreshPool == [dexId |-> "pumpswap", extracted |-> TRUE, age |-> 0, reserveUsd |-> minLiquidity]

\* Redis answers, every pool is a fresh PumpSwap pool with enough liquidity,
\* and the monitoring loop has not run yet.
CycleInit ==
  /\ errorCount = [i \in Inst |-> 0]
  /\ hasProcessedAnyPage = [i \in Inst |-> FALSE]
  /\ page = [i \in Inst |-> 1]
  /\ fetched = [i \in Inst |-> FALSE]
  /\ status = [i \in Inst |-> 0]
  /\ waitTime = [i \in Inst |-> 0]

\* const state = { processedTokens: new Set() }: every process starts with an
\* empty Set and has fetched no list yet.
BoostedInit ==
  /\ state = [i \in Inst |-> [processedTokens |-> {}]]
  /\ boostedTokens = [i \in Inst |-> <<>>]
  /\ unfetched = {}

MonitorInit ==
  /\ stalled = FALSE
  /\ unsent = {}
  /\ pools = [x \in Ids |-> FreshPool]
  /\ CycleInit
  /\ BoostedInit

Init ==
  /\ isReady = TRUE
  /\ signalLocks = [x \in Ids |-> NoLock]
  /\ processedTokens = {}
  /\ tokenMetadata = [x \in Ids |-> "none"]
  /\ meteoraProcessedTokens = {}
  /\ meteoraTokenMetadata = [x \in Ids |-> "none"]
  /\ meteoraSignalLocks = [x \in Ids |-> NoLock]
  /\ meteoraProcessedPools = {}
  /\ meteoraPoolMetadata = [x \in Ids |-> "none"]
  /\ pc = [i \in Inst |-> "stopped"]
  /\ cur = [i \in Inst |-> 1]
  /\ res = [i \in Inst |-> "none"]
  /\ pre = [i \in Inst |-> NoPre]
  /\ lockKeys = [i \in Inst |-> {}]
  /\ sent = [x \in Ids |-> 0]
  /\ abandoned = {}
  /\ rejected = {}
  /\ marked = {}
  /\ count = [i \in Inst |-> 0]
  /\ MonitorInit

\* ------------------------------------------------------- Redis primitives

\* SET key value NX EX 600: the reply is OK only when the key does not exist.
SetNX_noNX(x) == TRUE
SetNX(x) == signalLocks[x] = NoLock

\* SISMEMBER raydium_bot1:processed_tokens x
SIsMember_never(x) == FALSE
SIsMember(x) == x \in processedTokens

\* SADD key x: x is added to the set, which keeps every other member.
SAdd_replace(set, x) == {x}
SAdd(set, x) == set \cup {x}

\* DEL lockKey: the key is removed whoever created it.
Del_none(locks, x, i) == locks
Del_ifOwner(locks, x, i) ==
  IF locks[x].owner = i THEN [locks EXCEPT ![x] = NoLock] ELSE locks
Del(locks, x, i) == [locks EXCEPT ![x] = NoLock]

\* The boolean checkAndMarkTokenAsProcessed returns for each outcome:
\* true (skip) when locked or already processed, false (proceed) when the
\* claim was made, when Redis is not ready and in the catch block.
ReturnValue_failClosed(r) == r \in {"locked", "processed", "failopen"}
ReturnValue(r) == r \in {"locked", "processed"}

\* processTokensFromPage: `if (wasAlreadyProcessed) continue;`
AfterCheck(r) == IF ReturnValue(r) THEN "loop" ELSE "filter"

Store == <<signalLocks, processedTokens, tokenMetadata>>
MeteoraPools == <<meteoraSignalLocks, meteoraProcessedPools, meteoraPoolMetadata>>
Meteora == <<meteoraProcessedTokens, meteoraTokenMetadata, MeteoraPools>>
History == <<abandoned, rejected, marked, count>>

\* checkAndMarkTokenAsProcessed returns outcome r to the loop.
Return(i, r) ==
  /\ res' = [res EXCEPT ![i] = r]
  /\ pc' = [pc EXCEPT ![i] = AfterCheck(r)]

\* ------------------------------------------- the lock-based polling loop

\* processTokensFromPage: the for loop takes the next pool of the page and
\* calls checkAndMarkTokenAsProcessed(baseTokenAddress, ...).  pre.rej notes
\* (and pre.unsent, for an identifier whose notification failed)
\* whether the identifier had been claimed and filtered out before this cycle.
nextPool(i, x) ==
  /\ pc[i] = "loop"
  /\ pc' = [pc EXCEPT ![i] = "cm_set"]
  /\ cur' = [cur EXCEPT ![i] = x]
  /\ res' = [res EXCEPT ![i] = "none"]
  /\ pre' = [pre EXCEPT ![i] = [NoPre EXCEPT !.rej = x \in rejected,
                                             !.unsent = x \in unsent]]
  /\ UNCHANGED <<isReady, Monitor, Store, Meteora, lockKeys, sent, History>>

\* checkAndMarkTokenAsProcessed, up to and including redisClient.set(NX, EX).
checkAndMark_set(i) ==
  /\ pc[i] = "cm_set"
  /\ LET x == cur[i] IN
     IF ~isReady
     THEN /\ Return(i, "failopen")
          /\ UNCHANGED <<signalLocks, pre, abandoned>>
     ELSE /\ pre' = [pre EXCEPT ![i] = [lock |-> signalLocks[x] # NoLock,
                                         proc |-> x \in processedTokens,
                                         aband |-> x \in abandoned,
                                         rej |-> pre[i].rej,
                                         unsent |-> pre[i].unsent]]
          /\ IF SetNX(x)
             THEN /\ signalLocks' = [signalLocks EXCEPT
                                       ![x] = [owner |-> i, ex |-> LOCK_EX]]
                  /\ abandoned' = abandoned \ {x}
                  /\ pc' = [pc EXCEPT ![i] = "cm_sismember"]
                  /\ UNCHANGED res
             ELSE /\ Return(i, "locked")
                  /\ UNCHANGED <<signalLocks, abandoned>>
  /\ UNCHANGED <<isReady, Monitor, processedTokens, tokenMetadata, Meteora, cur, lockKeys, sent,
                 rejected, marked, count>>

\* checkAndMarkTokenAsProcessed: redisClient.sIsMember after the lock was taken.
checkAndMark_sIsMember(i) ==
  /\ pc[i] = "cm_sismember"
  /\ IF ~isReady
     THEN Return(i, "failopen")
     ELSE /\ pc' = [pc EXCEPT ![i] = IF SIsMember(cur[i]) THEN "cm_del" ELSE "cm_sadd"]
          /\ UNCHANGED res
  /\ UNCHANGED <<isReady, Monitor, Store, Meteora, cur, pre, lockKeys, sent, History>>

\* checkAndMarkTokenAsProcessed: `await redisClient.del(lockKey); return true;`
checkAndMark_del(i) ==
  /\ pc[i] = "cm_del"
  /\ IF ~isReady
     THEN /\ Return(i, "failopen")
          /\ UNCHANGED signalLocks
     ELSE /\ signalLocks' = Del(signalLocks, cur[i], i)
          /\ Return(i, "processed")
  /\ UNCHANGED <<isReady, Monitor, processedTokens, tokenMetadata, Meteora, cur, pre,
                 lockKeys, sent, History>>

\* checkAndMarkTokenAsProcessed: redisClient.sAdd(PROCESSED_TOKENS, tokenAddress).
checkAndMark_sAdd(i) ==
  /\ pc[i] = "cm_sadd"
  /\ IF ~isReady
     THEN /\ Return(i, "failopen")
          /\ UNCHANGED processedTokens
     ELSE /\ processedTokens' = SAdd(processedTokens, cur[i])
          /\ pc' = [pc EXCEPT ![i] = "cm_hset"]
          /\ UNCHANGED res
  /\ UNCHANGED <<isReady, Monitor, signalLocks, tokenMetadata, Meteora, cur, pre,
                 lockKeys, sent, History>>

\* checkAndMarkTokenAsProcessed: redisClient.hSet(TOKEN_METADATA:<id>, ...).
\* HSET on an existing key keeps the expiry the key already has.
checkAndMark_hSet(i) ==
  /\ pc[i] = "cm_hset"
  /\ IF ~isReady
     THEN /\ Return(i, "failopen")
          /\ UNCHANGED tokenMetadata
     ELSE /\ tokenMetadata' = [tokenMetadata EXCEPT
                                 ![cur[i]] = IF @ = "none" THEN "stored" ELSE @]
          /\ pc' = [pc EXCEPT ![i] = "cm_expire"]
          /\ UNCHANGED res
  /\ UNCHANGED <<isReady, Monitor, signalLocks, processedTokens, Meteora, cur, pre,
                 lockKeys, sent, History>>

\* checkAndMarkTokenAsProcessed: redisClient.expire(..., 30 days); return false.
\* EXPIRE on a key that has meanwhile expired does nothing.
checkAndMark_expire(i) ==
  /\ pc[i] = "cm_expire"
  /\ IF ~isReady
     THEN /\ Return(i, "failopen")
          /\ UNCHANGED tokenMetadata
     ELSE /\ tokenMetadata' = [tokenMetadata EXCEPT
                                 ![cur[i]] = IF @ = "none" THEN "none" ELSE "expiring"]
          /\ Return(i, "claimed")
  /\ marked' = IF isReady THEN marked \cup {cur[i]} ELSE marked
  /\ UNCHANGED <<isReady, Monitor, signalLocks, processedTokens, Meteora, cur, pre,
                 lockKeys, sent, abandoned, rejected, count>>

\* checkAndMarkTokenAsProcessed: a Redis call made after the SET throws (the
\* client rejects an argument that is not a string, the connection resets)
\* and `catch (error)` returns false; the lock taken by the SET stays.
checkAndMark_catch(i) ==
  /\ pc[i] \in {"cm_sismember", "cm_del", "cm_sadd", "cm_hset", "cm_expire"}
  /\ Return(i, "failopen")
  /\ UNCHANGED <<isReady, Monitor, Store, Meteora, cur, pre, lockKeys, sent, History>>

\* processTokensFromPage: the age filter, then the liquidity filter; a thrown
\* error is caught by `catch (filterError)` and also leads to the release.
filters(i, outcome) ==
  /\ pc[i] = "filter"
  /\ pc' = [pc EXCEPT ![i] = IF outcome = "pass" THEN "send" ELSE "release"]
  /\ rejected' = IF outcome # "pass" /\ res[i] = "claimed"
                 THEN rejected \cup {cur[i]} ELSE rejected
  /\ UNCHANGED <<isReady, Monitor, Store, Meteora, cur, res, pre, lockKeys, sent, abandoned, marked,
                 count>>

\* sendPumpSwapTokenSignal: bot.sendMessage raced against a 10 s timeout; a
\* failure is logged and swallowed.
sendPumpSwapTokenSignal(i, delivered) ==
  /\ pc[i] = "send"
  /\ sent' = IF delivered THEN [sent EXCEPT ![cur[i]] = Min(@ + 1, MaxSent)] ELSE sent
  /\ pc' = [pc EXCEPT ![i] = "release"]
  /\ UNCHANGED <<isReady, Monitor, Store, Meteora, cur, res, pre, lockKeys, History>>

\* sendPumpSwapTokenSignal when bot.sendMessage rejects or the 10 s timeout
\* wins the race: `catch (messageError)` logs, the function returns normally
\* and the loop goes on to tokensFoundCounter.count++ and releaseTokenLock.
sendPumpSwapTokenSignal_failed(i) ==
  /\ pc[i] = "send"
  /\ unsent' = unsent \cup {cur[i]}
  /\ pc' = [pc EXCEPT ![i] = "release"]
  /\ UNCHANGED <<isReady, stalled, pools, Cycle, Boosted, Store, Meteora, cur, res, pre,
                 lockKeys, sent, History>>

\* releaseTokenLock: redisClient.del(lockKey), nothing when Redis is not ready.
releaseTokenLock(i) ==
  /\ pc[i] = "release"
  /\ signalLocks' = IF isReady THEN Del(signalLocks, cur[i], i) ELSE signalLocks
  /\ pc' = [pc EXCEPT ![i] = "loop"]
  /\ UNCHANGED <<isReady, Monitor, processedTokens, tokenMetadata, Meteora, cur, res, pre,
                 lockKeys, sent, History>>

\* isTokenNewEnough(ageInMinutes)
isTokenNewEnough_always(ageInMinutes) == TRUE
isTokenNewEnough(ageInMinutes) == ageInMinutes <= maxAgeMinutes

\* processTokensFromPage: the two filters in the order of the code, age first.
FilterOutcome(pool) ==
  IF ~isTokenNewEnough(pool.age) THEN "too_old"
  ELSE IF pool.reserveUsd < minLiquidity THEN "low_liquidity"
  ELSE "pass"

\* processTokensFromPage: only pools whose dex id is 'pumpswap' are kept, and
\* a pool extractPoolData returns null for is skipped, before the store call.
nextPumpSwapPool(i, x) ==
  /\ pools[x].dexId = "pumpswap"
  /\ pools[x].extracted
  /\ nextPool(i, x)

\* processTokensFromPage: the filters applied to the pool being processed.
pumpSwapFilters(i) == filters(i, FilterOutcome(pools[cur[i]]))

\* ------------------------- the Raydium graduate variant (src/unnamed/part_001)
\* Its store functions and keys are those of the lock-based bot above.

\* isTokenNewEnough(ageInHours) of the graduate variant.
graduate_isTokenNewEnough(ageInHours) == ageInHours <= maxAgeHours

\* monitorMeteoraPools: the filters between the claim and the signal, in the
\* order of the code: pool age, market cap, oldest pool of the token when
\* DexScreener reported one, presence on Raydium Launchlab and on CPMM.
\* config.requirePositivePriceChange and config.minLiquidity are read nowhere
\* in the loop.
GraduateOutcome(pool, poolAgeInfo, raydiumPools) ==
  IF ~graduate_isTokenNewEnough(pool.age) THEN "too_old"
  ELSE IF pool.fdvUsd > maxMarketCap THEN "cap_too_high"
  ELSE IF poolAgeInfo.hasValidPools /\ poolAgeInfo.oldestPoolAgeHours > 24
       THEN "old_pools"
  ELSE IF ~raydiumPools.hasRaydiumLaunchlab \/ ~raydiumPools.hasRaydiumCPMM
       THEN "not_graduate"
  ELSE "pass"

\* fetchAllNewPools keeps the pools whose dex id is 'meteora' or
\* 'meteora-damm-v2'; the loop skips a pool extractPoolData returns null for.
nextGraduatePool(i, x) ==
  /\ pools[x].dexId \in {"meteora", "meteora-damm-v2"}
  /\ pools[x].extracted
  /\ nextPool(i, x)

\* monitorMeteoraPools: the filters with what checkTokenPoolAge and
\* checkRaydiumPools got from DexScreener for the token.
graduateFilters(i, poolAgeInfo, raydiumPools) ==
  filters(i, GraduateOutcome(pools[cur[i]], poolAgeInfo, raydiumPools))

\* ------------------------------------------------ process start and death

\* A claim is abandoned when its holder dies after checkAndMark returned
\* "claimed" and before releaseTokenLock ran.
HoldsClaim(i) ==
  /\ pc[i] \in {"filter", "send", "release"}
  /\ res[i] = "claimed"
  /\ signalLocks[cur[i]].owner = i

\* The process is killed (SIGKILL, host failure): its locks stay in Redis.
Crash(i) ==
  /\ pc[i] # "stopped"
  /\ pc' = [pc EXCEPT ![i] = "stopped"]
  /\ res' = [res EXCEPT ![i] = "none"]
  /\ pre' = [pre EXCEPT ![i] = NoPre]
  /\ lockKeys' = [lockKeys EXCEPT ![i] = {}]
  /\ signalLocks' = [x \in Ids |-> IF signalLocks[x].owner = i
                                   THEN [signalLocks[x] EXCEPT !.owner = Orphan]
                                   ELSE signalLocks[x]]
  /\ abandoned' = IF HoldsClaim(i) THEN abandoned \cup {cur[i]} ELSE abandoned
  /\ UNCHANGED <<isReady, Monitor, processedTokens, tokenMetadata, Meteora, cur, sent,
                 rejected, marked, count>>

\* main(): redisClient.connect() and getProcessedTokensCount(); a connection
\* failure is caught and the bot goes on to monitorPumpSwapTokens().
main_connect(i) ==
  /\ pc[i] = "stopped"
  /\ pc' = [pc EXCEPT ![i] = IF isReady THEN "main_keys" ELSE "loop"]
  /\ UNCHANGED <<isReady, Monitor, Store, Meteora, cur, res, pre, lockKeys, sent, History>>

\* main(): lockKeys = await redisClient.keys('raydium_bot1:signal_locks:*').
main_keys(i) ==
  /\ pc[i] = "main_keys"
  /\ LET found == IF isReady THEN {x \in Ids : signalLocks[x] # NoLock} ELSE {} IN
     /\ lockKeys' = [lockKeys EXCEPT ![i] = found]
     /\ pc' = [pc EXCEPT ![i] = IF found = {} THEN "loop" ELSE "main_del"]
  /\ UNCHANGED <<isReady, Monitor, Store, Meteora, cur, res, pre, sent, History>>

\* main(): await redisClient.del(lockKeys), every key found is deleted.
main_del(i) ==
  /\ pc[i] = "main_del"
  /\ signalLocks' = IF isReady
                    THEN [x \in Ids |-> IF x \in lockKeys[i] THEN NoLock ELSE signalLocks[x]]
                    ELSE signalLocks
  /\ lockKeys' = [lockKeys EXCEPT ![i] = {}]
  /\ pc' = [pc EXCEPT ![i] = "loop"]
  /\ UNCHANGED <<isReady, Monitor, processedTokens, tokenMetadata, Meteora, cur, res, pre,
                 sent, History>>

\* ------------------------------------------------------------ environment

\* The EX of a lock runs out, LOCK_EX seconds after the SET that created it,
\* and Redis removes the key.  A key set without EX never expires.
lockExpiry(x) ==
  /\ signalLocks[x] # NoLock
  /\ signalLocks[x].ex > 0
  /\ signalLocks' = [signalLocks EXCEPT ![x] = NoLock]
  /\ UNCHANGED <<isReady, Monitor, processedTokens, tokenMetadata, Meteora, pc, cur, res, pre,
                 lockKeys, sent, History>>

\* The 30 days of a metadata key run out: Redis removes that key and no other.
MetadataExpiry_dropsMember(x) ==
  /\ tokenMetadata[x] = "expiring"
  /\ tokenMetadata' = [tokenMetadata EXCEPT ![x] = "none"]
  /\ processedTokens' = processedTokens \ {x}
  /\ UNCHANGED <<isReady, Monitor, signalLocks, Meteora, pc, cur, res, pre,
                 lockKeys, sent, History>>
MetadataExpiry(x) ==
  /\ tokenMetadata[x] = "expiring"
  /\ tokenMetadata' = [tokenMetadata EXCEPT ![x] = "none"]
  /\ UNCHANGED <<isReady, Monitor, signalLocks, processedTokens, Meteora, pc, cur, res, pre,
                 lockKeys, sent, History>>

\* The connection to Redis is lost or comes back.
RedisConnection ==
  /\ isReady' = ~isReady
  /\ UNCHANGED <<Monitor, Store, Meteora, pc, cur, res, pre, lockKeys, sent, History>>

\* The Redis server stops answering while the socket stays open: isReady
\* remains true and no `await redisClient...` issued from now on settles.
RedisStalls ==
  /\ ~stalled
  /\ stalled' = TRUE
  /\ UNCHANGED <<isReady, unsent, pools, Cycle, Boosted, Store, Meteora, pc, cur, res, pre,
                 lockKeys, sent, History>>

\* ------------------------------------- the check-then-act polling loop
\* (monitorMeteoraPairs and the first monitorMeteoraPools of src/bot.js)

\* isTokenProcessed(tokenAddress): false when Redis is not ready or the call
\* throws, otherwise the reply of SISMEMBER meteora:processed_tokens.
isTokenProcessed_failClosed(ready, x) == ~ready \/ x \in meteoraProcessedTokens
isTokenProcessed(ready, x) == ready /\ x \in meteoraProcessedTokens

\* monitorMeteoraPairs: the for loop takes the next token of the fetched list.
nextToken(i, x) ==
  /\ pc[i] = "cta_loop"
  /\ pc' = [pc EXCEPT ![i] = "cta_check"]
  /\ cur' = [cur EXCEPT ![i] = x]
  /\ res' = [res EXCEPT ![i] = "none"]
  /\ UNCHANGED <<isReady, Monitor, Store, Meteora, pre, lockKeys, sent, History>>

\* monitorMeteoraPairs: `if (await isTokenProcessed(tokenAddress)) continue;`
checkProcessed(i) ==
  /\ pc[i] = "cta_check"
  /\ LET skip == isTokenProcessed(isReady, cur[i]) IN
     /\ pc' = [pc EXCEPT ![i] = IF skip THEN "cta_loop" ELSE "cta_filter"]
     /\ res' = [res EXCEPT ![i] = IF skip THEN "processed"
                                  ELSE IF isReady THEN "unprocessed" ELSE "failopen"]
  /\ UNCHANGED <<isReady, Monitor, Store, Meteora, cur, pre, lockKeys, sent, History>>

\* monitorMeteoraPairs: fetchTokenPairDetails, the age and price filters,
\* checkMeteoraPool and checkTokenSafety; every rejection, and an error caught
\* by `catch (tokenError)`, goes on to markTokenAsProcessed.
pairFilters(i, outcome) ==
  /\ pc[i] = "cta_filter"
  /\ pc' = [pc EXCEPT ![i] = IF outcome = "pass" THEN "cta_send" ELSE "mk_sadd"]
  /\ UNCHANGED <<isReady, Monitor, Store, Meteora, cur, res, pre, lockKeys, sent, History>>

\* sendMeteoraSignal, followed by markTokenAsProcessed(reason: 'signal_sent').
sendMeteoraSignal(i, delivered) ==
  /\ pc[i] = "cta_send"
  /\ sent' = IF delivered THEN [sent EXCEPT ![cur[i]] = Min(@ + 1, MaxSent)] ELSE sent
  /\ pc' = [pc EXCEPT ![i] = "mk_sadd"]
  /\ UNCHANGED <<isReady, Monitor, Store, Meteora, cur, res, pre, lockKeys, History>>

\* markTokenAsProcessed: redisClient.sAdd; `return false` when Redis is not
\* ready or a call throws.
markTokenAsProcessed_sAdd(i) ==
  /\ pc[i] = "mk_sadd"
  /\ IF isReady
     THEN /\ meteoraProcessedTokens' = SAdd(meteoraProcessedTokens, cur[i])
          /\ pc' = [pc EXCEPT ![i] = "mk_hset"]
     ELSE /\ pc' = [pc EXCEPT ![i] = "cta_loop"]
          /\ UNCHANGED meteoraProcessedTokens
  /\ UNCHANGED <<isReady, Monitor, Store, meteoraTokenMetadata, MeteoraPools, cur, res, pre,
                 lockKeys, sent, History>>

\* markTokenAsProcessed: redisClient.hSet(TOKEN_METADATA:<id>, ...).
markTokenAsProcessed_hSet(i) ==
  /\ pc[i] = "mk_hset"
  /\ IF isReady
     THEN /\ meteoraTokenMetadata' = [meteoraTokenMetadata EXCEPT
                                        ![cur[i]] = IF @ = "none" THEN "stored" ELSE @]
          /\ pc' = [pc EXCEPT ![i] = "mk_expire"]
     ELSE /\ pc' = [pc EXCEPT ![i] = "cta_loop"]
          /\ UNCHANGED meteoraTokenMetadata
  /\ UNCHANGED <<isReady, Monitor, Store, meteoraProcessedTokens, MeteoraPools, cur, res, pre,
                 lockKeys, sent, History>>

\* markTokenAsProcessed: redisClient.expire(..., 30 days); return true.
markTokenAsProcessed_expire(i) ==
  /\ pc[i] = "mk_expire"
  /\ meteoraTokenMetadata' =
       IF isReady
       THEN [meteoraTokenMetadata EXCEPT
               ![cur[i]] = IF @ = "none" THEN "none" ELSE "expiring"]
       ELSE meteoraTokenMetadata
  /\ pc' = [pc EXCEPT ![i] = "cta_loop"]
  /\ UNCHANGED <<isReady, Monitor, Store, meteoraProcessedTokens, MeteoraPools, cur, res, pre,
                 lockKeys, sent, History>>

\* ------------------- the lock-based pool bot of src/bot.js (second program)
\* Same protocol as above under the keys meteora:signal_locks,
\* meteora:processed_pools and meteora:pool_metadata, in Redis database 0.

PoolReturn(i, r) ==
  /\ res' = [res EXCEPT ![i] = r]
  /\ pc' = [pc EXCEPT ![i] = IF ReturnValue(r) THEN "pool_loop" ELSE "pool_filter"]

\* What no step of the pool bot touches.
PoolFrame == <<isReady, Monitor, Store, meteoraProcessedTokens, meteoraTokenMetadata, cur,
               pre, lockKeys, History>>

\* monitorMeteoraPools: the for loop takes the next pool and calls
\* checkAndMarkPoolAsProcessed(poolAddress, ...).
nextMeteoraPool(i, x) ==
  /\ pc[i] = "pool_loop"
  /\ pc' = [pc EXCEPT ![i] = "pm_set"]
  /\ cur' = [cur EXCEPT ![i] = x]
  /\ res' = [res EXCEPT ![i] = "none"]
  /\ UNCHANGED <<isReady, Monitor, Store, Meteora, pre, lockKeys, sent, History>>

\* checkAndMarkPoolAsProcessed, up to and including redisClient.set(NX, EX).
checkAndMarkPool_set(i) ==
  /\ pc[i] = "pm_set"
  /\ IF ~isReady
     THEN PoolReturn(i, "failopen") /\ UNCHANGED meteoraSignalLocks
     ELSE IF meteoraSignalLocks[cur[i]] = NoLock
          THEN /\ meteoraSignalLocks' = [meteoraSignalLocks EXCEPT
                                           ![cur[i]] = [owner |-> i, ex |-> LOCK_EX]]
               /\ pc' = [pc EXCEPT ![i] = "pm_sismember"]
               /\ UNCHANGED res
          ELSE PoolReturn(i, "locked") /\ UNCHANGED meteoraSignalLocks
  /\ UNCHANGED <<PoolFrame, meteoraProcessedPools, meteoraPoolMetadata, sent>>

\* checkAndMarkPoolAsProcessed: redisClient.sIsMember(PROCESSED_POOLS, ...).
checkAndMarkPool_sIsMember(i) ==
  /\ pc[i] = "pm_sismember"
  /\ IF ~isReady
     THEN PoolReturn(i, "failopen")
     ELSE /\ pc' = [pc EXCEPT ![i] = IF cur[i] \in meteoraProcessedPools
                                     THEN "pm_del" ELSE "pm_sadd"]
          /\ UNCHANGED res
  /\ UNCHANGED <<PoolFrame, MeteoraPools, sent>>

\* checkAndMarkPoolAsProcessed: `await redisClient.del(lockKey); return true;`
checkAndMarkPool_del(i) ==
  /\ pc[i] = "pm_del"
  /\ IF ~isReady
     THEN PoolReturn(i, "failopen") /\ UNCHANGED meteoraSignalLocks
     ELSE /\ meteoraSignalLocks' = Del(meteoraSignalLocks, cur[i], i)
          /\ PoolReturn(i, "processed")
  /\ UNCHANGED <<PoolFrame, meteoraProcessedPools, meteoraPoolMetadata, sent>>

\* checkAndMarkPoolAsProcessed: redisClient.sAdd(PROCESSED_POOLS, poolAddress).
checkAndMarkPool_sAdd(i) ==
  /\ pc[i] = "pm_sadd"
  /\ IF ~isReady
     THEN PoolReturn(i, "failopen") /\ UNCHANGED meteoraProcessedPools
     ELSE /\ meteoraProcessedPools' = SAdd(meteoraProcessedPools, cur[i])
          /\ pc' = [pc EXCEPT ![i] = "pm_hset"]
          /\ UNCHANGED res
  /\ UNCHANGED <<PoolFrame, meteoraSignalLocks, meteoraPoolMetadata, sent>>

\* checkAndMarkPoolAsProcessed: redisClient.hSet(POOL_METADATA:<id>, ...).
checkAndMarkPool_hSet(i) ==
  /\ pc[i] = "pm_hset"
  /\ IF ~isReady
     THEN PoolReturn(i, "failopen") /\ UNCHANGED meteoraPoolMetadata
     ELSE /\ meteoraPoolMetadata' = [meteoraPoolMetadata EXCEPT
                                       ![cur[i]] = IF @ = "none" THEN "stored" ELSE @]
          /\ pc' = [pc EXCEPT ![i] = "pm_expire"]
          /\ UNCHANGED res
  /\ UNCHANGED <<PoolFrame, meteoraSignalLocks, meteoraProcessedPools, sent>>

\* checkAndMarkPoolAsProcessed: redisClient.expire(..., 30 days); return false.
checkAndMarkPool_expire(i) ==
  /\ pc[i] = "pm_expire"
  /\ IF ~isReady
     THEN PoolReturn(i, "failopen") /\ UNCHANGED meteoraPoolMetadata
     ELSE /\ meteoraPoolMetadata' = [meteoraPoolMetadata EXCEPT
                                       ![cur[i]] = IF @ = "none" THEN "none" ELSE "expiring"]
          /\ PoolReturn(i, "claimed")
  /\ UNCHANGED <<PoolFrame, meteoraSignalLocks, meteoraProcessedPools, sent>>

\* monitorMeteoraPools: the age and price filters, checkPumpPools and
\* checkTokenSafety; every rejection and a caught error lead to the release.
poolFilters(i, outcome) ==
  /\ pc[i] = "pool_filter"
  /\ pc' = [pc EXCEPT ![i] = IF outcome = "pass" THEN "pool_send" ELSE "pool_release"]
  /\ UNCHANGED <<PoolFrame, MeteoraPools, res, sent>>

\* sendPumpGraduateSignal; a failure is logged and swallowed.
sendPumpGraduateSignal(i, delivered) ==
  /\ pc[i] = "pool_send"
  /\ sent' = IF delivered THEN [sent EXCEPT ![cur[i]] = Min(@ + 1, MaxSent)] ELSE sent
  /\ pc' = [pc EXCEPT ![i] = "pool_release"]
  /\ UNCHANGED <<PoolFrame, MeteoraPools, res>>

\* releasePoolLock: redisClient.del(lockKey), nothing when Redis is not ready.
releasePoolLock(i) ==
  /\ pc[i] = "pool_release"
  /\ meteoraSignalLocks' = IF isReady THEN Del(meteoraSignalLocks, cur[i], i)
                           ELSE meteoraSignalLocks
  /\ pc' = [pc EXCEPT ![i] = "pool_loop"]
  /\ UNCHANGED <<PoolFrame, meteoraProcessedPools, meteoraPoolMetadata, res, sent>>

\* KEYS pattern returns the keys of the connection's database that the glob
\* matches: '<prefix>:signal_locks:*' matches the lock keys of that prefix only.
Matches_any(pattern, prefix) == TRUE
Matches(pattern, prefix) == pattern = prefix

\* main() of the pool bot: lockKeys = await redisClient.keys('meteora:signal_locks:*').
poolMain_keys(i) ==
  /\ pc[i] = "pool_main"
  /\ LET found == IF ~isReady THEN {}
                  ELSE {x \in Ids : meteoraSignalLocks[x] # NoLock}
                       \cup (IF Matches("meteora", "raydium_bot1")
                             THEN {x \in Ids : signalLocks[x] # NoLock} ELSE {})
     IN /\ lockKeys' = [lockKeys EXCEPT ![i] = found]
        /\ pc' = [pc EXCEPT ![i] = IF found = {} THEN "pool_loop" ELSE "pool_main_del"]
  /\ UNCHANGED <<isReady, Monitor, Store, Meteora, cur, res, pre, sent, History>>

\* main() of the pool bot: await redisClient.del(lockKeys).
poolMain_del(i) ==
  /\ pc[i] = "pool_main_del"
  /\ meteoraSignalLocks' =
       IF isReady
       THEN [x \in Ids |-> IF x \in lockKeys[i] THEN NoLock ELSE meteoraSignalLocks[x]]
       ELSE meteoraSignalLocks
  /\ signalLocks' =
       IF isReady /\ Matches("meteora", "raydium_bot1")
       THEN [x \in Ids |-> IF x \in lockKeys[i] THEN NoLock ELSE signalLocks[x]]
       ELSE signalLocks
  /\ lockKeys' = [lockKeys EXCEPT ![i] = {}]
  /\ pc' = [pc EXCEPT ![i] = "pool_loop"]
  /\ UNCHANGED <<isReady, Monitor, processedTokens, tokenMetadata, meteoraProcessedTokens,
                 meteoraTokenMetadata, meteoraProcessedPools, meteoraPoolMetadata,
                 cur, res, pre, sent, History>>

\* ------------------------------- the store functions called on their own
\* (src/bot1.js exports nothing; these are the functions of its Redis section
\* invoked by a caller that sits between two loop iterations)

\* releaseTokenLock(tokenAddress) called for any identifier, locked or not.
callReleaseTokenLock(i, x) ==
  /\ pc[i] = "loop"
  /\ pc' = [pc EXCEPT ![i] = "release"]
  /\ cur' = [cur EXCEPT ![i] = x]
  /\ res' = [res EXCEPT ![i] = "release"]
  /\ pre' = [pre EXCEPT ![i] = NoPre]
  /\ UNCHANGED <<isReady, Monitor, Store, Meteora, lockKeys, sent, History>>

\* markTokenAsProcessed(tokenAddress, metadata) of the lock-based bot is called.
callMarkTokenAsProcessed(i, x) ==
  /\ pc[i] = "loop"
  /\ pc' = [pc EXCEPT ![i] = "mp_sadd"]
  /\ cur' = [cur EXCEPT ![i] = x]
  /\ res' = [res EXCEPT ![i] = "none"]
  /\ pre' = [pre EXCEPT ![i] = NoPre]
  /\ UNCHANGED <<isReady, Monitor, Store, Meteora, lockKeys, sent, History>>

\* markTokenAsProcessed: redisClient.sAdd(PROCESSED_TOKENS, tokenAddress);
\* `return false` when Redis is not ready or the call throws.
bot1_markTokenAsProcessed_sAdd(i) ==
  /\ pc[i] = "mp_sadd"
  /\ IF isReady
     THEN /\ processedTokens' = SAdd(processedTokens, cur[i])
          /\ pc' = [pc EXCEPT ![i] = "mp_hset"]
          /\ UNCHANGED res
     ELSE /\ pc' = [pc EXCEPT ![i] = "loop"]
          /\ res' = [res EXCEPT ![i] = "notmarked"]
          /\ UNCHANGED processedTokens
  /\ UNCHANGED <<isReady, Monitor, signalLocks, tokenMetadata, Meteora, cur, pre, lockKeys,
                 sent, History>>

\* markTokenAsProcessed: redisClient.hSet(TOKEN_METADATA:<id>, stringifiedData).
bot1_markTokenAsProcessed_hSet(i) ==
  /\ pc[i] = "mp_hset"
  /\ IF isReady
     THEN /\ tokenMetadata' = [tokenMetadata EXCEPT
                                 ![cur[i]] = IF @ = "none" THEN "stored" ELSE @]
          /\ pc' = [pc EXCEPT ![i] = "mp_expire"]
          /\ UNCHANGED res
     ELSE /\ pc' = [pc EXCEPT ![i] = "loop"]
          /\ res' = [res EXCEPT ![i] = "notmarked"]
          /\ UNCHANGED tokenMetadata
  /\ UNCHANGED <<isReady, Monitor, signalLocks, processedTokens, Meteora, cur, pre, lockKeys,
                 sent, History>>

\* markTokenAsProcessed: redisClient.expire(..., 30 days); return true.
bot1_markTokenAsProcessed_expire(i) ==
  /\ pc[i] = "mp_expire"
  /\ IF isReady
     THEN /\ tokenMetadata' = [tokenMetadata EXCEPT
                                 ![cur[i]] = IF @ = "none" THEN "none" ELSE "expiring"]
          /\ res' = [res EXCEPT ![i] = "marked"]
     ELSE /\ res' = [res EXCEPT ![i] = "notmarked"]
          /\ UNCHANGED tokenMetadata
  /\ marked' = IF isReady THEN marked \cup {cur[i]} ELSE marked
  /\ pc' = [pc EXCEPT ![i] = "loop"]
  /\ UNCHANGED <<isReady, Monitor, signalLocks, processedTokens, Meteora, cur, pre, lockKeys,
                 sent, abandoned, rejected, count>>

\* monitorPumpSwapTokens: at the end of a cycle, and main() after connecting,
\* call getProcessedTokensCount().
callGetProcessedTokensCount(i) ==
  /\ pc[i] = "loop"
  /\ pc' = [pc EXCEPT ![i] = "count"]
  /\ res' = [res EXCEPT ![i] = "none"]
  /\ pre' = [pre EXCEPT ![i] = NoPre]
  /\ UNCHANGED <<isReady, Monitor, Store, Meteora, cur, lockKeys, sent, History>>

\* SCARD key: the number of members of the set.
SCard_minusOne(set) == IF set = {} THEN 0 ELSE Cardinality(set) - 1
SCard(set) == Cardinality(set)

\* getProcessedTokensCount: redisClient.sCard(PROCESSED_TOKENS), `count || 0`;
\* 0 when Redis is not ready or the call throws.
getProcessedTokensCount(i) ==
  /\ pc[i] = "count"
  /\ count' = [count EXCEPT ![i] = IF isReady THEN SCard(processedTokens) ELSE 0]
  /\ pc' = [pc EXCEPT ![i] = "loop"]
  /\ UNCHANGED <<isReady, Monitor, Store, Meteora, cur, res, pre, lockKeys, sent,
                 abandoned, rejected, marked>>

\* ------------------------------------------------- the monitoring loops

\* What no step of a monitoring loop outside processTokensFromPage touches.
CycleFrame == <<isReady, stalled, unsent, pools, Boosted, Store, Meteora, cur, res, pre, lockKeys, sent,
                abandoned, rejected, marked>>

\* `let waitTime = CYCLE_DELAY; if (errorCount > 0) waitTime =
\* Math.min(CYCLE_DELAY + (errorCount * 30000), 300000);`
WaitTime_uncapped(e) == CYCLE_DELAY + (e * 30000)
WaitTime(e) == IF e > 0 THEN Min(CYCLE_DELAY + (e * 30000), 300000) ELSE CYCLE_DELAY

\* `let recoveryTime = 120000; if (error.response?.status === 429)
\* recoveryTime = 300000;`
RecoveryTime(st) == IF st = 429 THEN 300000 ELSE 120000

\* monitorPumpSwapTokens: a cycle begins.
startCycle(i) ==
  /\ pc[i] = "cycle"
  /\ pc' = [pc EXCEPT ![i] = "page"]
  /\ hasProcessedAnyPage' = [hasProcessedAnyPage EXCEPT ![i] = FALSE]
  /\ page' = [page EXCEPT ![i] = 1]
  /\ fetched' = [fetched EXCEPT ![i] = FALSE]
  /\ UNCHANGED <<CycleFrame, count, errorCount, status, waitTime>>

\* processTokensFromPage(page) begins with fetchNewPoolsFromPage(page), which
\* returns the pools of the page, or [] when the request failed or timed
\* out: then the for loop over the pools has nothing to do.
fetchNewPoolsFromPage(i, ok) ==
  /\ pc[i] = "page"
  /\ pc' = [pc EXCEPT ![i] = IF ok THEN "loop" ELSE "page_end"]
  /\ fetched' = [fetched EXCEPT ![i] = @ \/ ok]
  /\ UNCHANGED <<CycleFrame, count, errorCount, hasProcessedAnyPage, page, status,
                 waitTime>>

\* monitorPumpSwapTokens: processTokensFromPage has returned, which it does
\* whatever happened inside it; `hasProcessedAnyPage = true` and the next page.
endOfPage(i) ==
  /\ pc[i] \in {"loop", "page_end"}
  /\ hasProcessedAnyPage' = [hasProcessedAnyPage EXCEPT ![i] = TRUE]
  /\ IF page[i] < MAX_PAGES
     THEN /\ page' = [page EXCEPT ![i] = @ + 1]
          /\ pc' = [pc EXCEPT ![i] = "page"]
     ELSE /\ pc' = [pc EXCEPT ![i] = "cycle_end"]
          /\ UNCHANGED page
  /\ UNCHANGED <<CycleFrame, count, errorCount, fetched, status, waitTime>>

\* monitorPumpSwapTokens, after the pages: errorCount++ or errorCount = 0,
\* getProcessedTokensCount() and the wait time of the cycle.
endOfCycle(i) ==
  /\ pc[i] = "cycle_end"
  /\ LET e == IF ~hasProcessedAnyPage[i] THEN errorCount[i] + 1 ELSE 0 IN
     /\ e <= MaxErrorCount
     /\ errorCount' = [errorCount EXCEPT ![i] = e]
     /\ waitTime' = [waitTime EXCEPT ![i] = WaitTime(e)]
  /\ count' = [count EXCEPT ![i] = IF isReady THEN SCard(processedTokens) ELSE 0]
  /\ pc' = [pc EXCEPT ![i] = "sleep"]
  /\ UNCHANGED <<CycleFrame, hasProcessedAnyPage, page, fetched, status>>

\* `catch (error)` of the monitoring loop: errorCount += 5 and the recovery
\* time for the status of the error.
catchCritical(i, st, next) ==
  /\ errorCount[i] + 5 <= MaxErrorCount
  /\ errorCount' = [errorCount EXCEPT ![i] = @ + 5]
  /\ status' = [status EXCEPT ![i] = st]
  /\ waitTime' = [waitTime EXCEPT ![i] = RecoveryTime(st)]
  /\ pc' = [pc EXCEPT ![i] = next]
  /\ UNCHANGED <<CycleFrame, count, hasProcessedAnyPage, page, fetched>>

\* monitorPumpSwapTokens: a statement of the try block outside
\* processTokensFromPage throws.
criticalError(i, st) ==
  /\ pc[i] \in {"page", "page_end", "cycle_end"}
  /\ catchCritical(i, st, "recover")

\* `await sleep(waitTime)` or `await sleep(recoveryTime)` is over.
sleepDone(i) ==
  /\ pc[i] \in {"sleep", "recover"}
  /\ pc' = [pc EXCEPT ![i] = "cycle"]
  /\ UNCHANGED <<CycleFrame, count, Cycle>>

\* monitorMeteoraPools of the graduate variant: fetchAllNewPools() fetches
\* every page and keeps the Meteora pools; `meteoraPools.length === 0` counts
\* as an error, anything else resets errorCount and the pools are processed.
fetchAllNewPools(i, anyOk, found) ==
  /\ pc[i] = "g_cycle"
  /\ found => anyOk
  /\ fetched' = [fetched EXCEPT ![i] = anyOk]
  /\ IF found
     THEN /\ errorCount' = [errorCount EXCEPT ![i] = 0]
          /\ pc' = [pc EXCEPT ![i] = "loop"]
     ELSE /\ errorCount[i] < MaxErrorCount
          /\ errorCount' = [errorCount EXCEPT ![i] = @ + 1]
          /\ pc' = [pc EXCEPT ![i] = "g_cycle_end"]
  /\ UNCHANGED <<CycleFrame, count, hasProcessedAnyPage, page, status, waitTime>>

\* monitorMeteoraPools: the for loop over the pools is over.
graduate_endOfPools(i) ==
  /\ pc[i] = "loop"
  /\ pc' = [pc EXCEPT ![i] = "g_cycle_end"]
  /\ UNCHANGED <<CycleFrame, count, Cycle>>

\* monitorMeteoraPools: getProcessedTokensCount() and the wait time.
graduate_endOfCycle(i) ==
  /\ pc[i] = "g_cycle_end"
  /\ waitTime' = [waitTime EXCEPT ![i] = WaitTime(errorCount[i])]
  /\ count' = [count EXCEPT ![i] = IF isReady THEN SCard(processedTokens) ELSE 0]
  /\ pc' = [pc EXCEPT ![i] = "g_sleep"]
  /\ UNCHANGED <<CycleFrame, errorCount, hasProcessedAnyPage, page, fetched, status>>

\* monitorMeteoraPools: a statement of the try block throws.
graduate_criticalError(i, st) ==
  /\ pc[i] \in {"g_cycle", "g_cycle_end"}
  /\ catchCritical(i, st, "g_recover")

graduate_sleepDone(i) ==
  /\ pc[i] \in {"g_sleep", "g_recover"}
  /\ pc' = [pc EXCEPT ![i] = "g_cycle"]
  /\ UNCHANGED <<CycleFrame, count, Cycle>>

\* ---------------------------------------------------------- specifications

LoopStep(i) ==
  \/ \E x \in Ids : nextPool(i, x)
  \/ checkAndMark_set(i)
  \/ checkAndMark_sIsMember(i)
  \/ checkAndMark_del(i)
  \/ checkAndMark_sAdd(i)
  \/ checkAndMark_hSet(i)
  \/ checkAndMark_expire(i)
  \/ \E o \in {"pass", "reject"} : filters(i, o)
  \/ \E d \in BOOLEAN : sendPumpSwapTokenSignal(i, d)
  \/ releaseTokenLock(i)

MainStep(i) ==
  \/ main_connect(i)
  \/ main_keys(i)
  \/ main_del(i)

PairStep(i) ==
  \/ \E x \in Ids : nextToken(i, x)
  \/ checkProcessed(i)
  \/ \E o \in {"pass", "reject"} : pairFilters(i, o)
  \/ \E d \in BOOLEAN : sendMeteoraSignal(i, d)
  \/ markTokenAsProcessed_sAdd(i)
  \/ markTokenAsProcessed_hSet(i)
  \/ markTokenAsProcessed_expire(i)

PoolStep(i) ==
  \/ \E x \in Ids : nextMeteoraPool(i, x)
  \/ checkAndMarkPool_set(i)
  \/ checkAndMarkPool_sIsMember(i)
  \/ checkAndMarkPool_del(i)
  \/ checkAndMarkPool_sAdd(i)
  \/ checkAndMarkPool_hSet(i)
  \/ checkAndMarkPool_expire(i)
  \/ \E o \in {"pass", "reject"} : poolFilters(i, o)
  \/ \E d \in BOOLEAN : sendPumpGraduateSignal(i, d)
  \/ releasePoolLock(i)
  \/ poolMain_keys(i)
  \/ poolMain_del(i)

StoreCall(i) ==
  \/ \E x \in Ids : callReleaseTokenLock(i, x)
  \/ \E x \in Ids : callMarkTokenAsProcessed(i, x)
  \/ bot1_markTokenAsProcessed_sAdd(i)
  \/ bot1_markTokenAsProcessed_hSet(i)
  \/ bot1_markTokenAsProcessed_expire(i)

CountCall(i) ==
  \/ callGetProcessedTokensCount(i)
  \/ getProcessedTokensCount(i)

\* Instances of the lock-based bot: processes start, poll, die and restart,
\* locks expire, Redis stays reachable.
Next ==
  \/ \E i \in Inst : LoopStep(i)
  \/ \E i \in Inst : MainStep(i)
  \/ \E i \in Inst : Crash(i)
  \/ \E x \in Ids : lockExpiry(x)

Spec == Init /\ [][Next]_vars

\* N callers race: every instance is in its monitoring loop on an empty store
\* and runs one iteration; nobody dies and no lock expires.
InitRace ==
  /\ isReady = TRUE
  /\ signalLocks = [x \in Ids |-> NoLock]
  /\ processedTokens = {}
  /\ tokenMetadata = [x \in Ids |-> "none"]
  /\ meteoraProcessedTokens = {}
  /\ meteoraTokenMetadata = [x \in Ids |-> "none"]
  /\ meteoraSignalLocks = [x \in Ids |-> NoLock]
  /\ meteoraProcessedPools = {}
  /\ meteoraPoolMetadata = [x \in Ids |-> "none"]
  /\ pc = [i \in Inst |-> "loop"]
  /\ cur = [i \in Inst |-> 1]
  /\ res = [i \in Inst |-> "none"]
  /\ pre = [i \in Inst |-> NoPre]
  /\ lockKeys = [i \in Inst |-> {}]
  /\ sent = [x \in Ids |-> 0]
  /\ abandoned = {}
  /\ rejected = {}
  /\ marked = {}
  /\ count = [i \in Inst |-> 0]
  /\ MonitorInit

NotYetRun(i) == pc[i] = "loop" /\ res[i] = "none"

NextRace ==
  \E i \in Inst :
    \/ NotYetRun(i) /\ \E x \in Ids : nextPool(i, x)
    \/ pc[i] # "loop" /\ LoopStep(i)

SpecRace == InitRace /\ [][NextRace]_vars

\* One caller alone, started on any contents the store can have: a lock left
\* by a dead process or none, the identifier processed or not.
InitSeq ==
  /\ isReady = TRUE
  /\ signalLocks \in [Ids -> {NoLock, [owner |-> Orphan, ex |-> LOCK_EX]}]
  /\ processedTokens \in SUBSET Ids
  /\ tokenMetadata \in [Ids -> {"none", "stored", "expiring"}]
  /\ \A x \in Ids : x \notin processedTokens => tokenMetadata[x] = "none"
  /\ meteoraProcessedTokens = {}
  /\ meteoraTokenMetadata = [x \in Ids |-> "none"]
  /\ meteoraSignalLocks = [x \in Ids |-> NoLock]
  /\ meteoraProcessedPools = {}
  /\ meteoraPoolMetadata = [x \in Ids |-> "none"]
  /\ pc = [i \in Inst |-> IF i = 1 THEN "loop" ELSE "stopped"]
  /\ cur = [i \in Inst |-> 1]
  /\ res = [i \in Inst |-> "none"]
  /\ pre = [i \in Inst |-> NoPre]
  /\ lockKeys = [i \in Inst |-> {}]
  /\ sent = [x \in Ids |-> 0]
  /\ abandoned = {}
  /\ rejected = {}
  /\ marked = {}
  /\ count = [i \in Inst |-> 0]
  /\ MonitorInit

NextSeq == LoopStep(1)

SpecSeq == InitSeq /\ [][NextSeq]_vars

\* Degraded operation: one running process, of the lock-based bot or of the
\* check-then-act bot of src/bot.js, while its connection to Redis comes and
\* goes between any two of its calls.
InitDegraded ==
  /\ isReady = TRUE
  /\ signalLocks = [x \in Ids |-> NoLock]
  /\ processedTokens = {}
  /\ tokenMetadata = [x \in Ids |-> "none"]
  /\ meteoraProcessedTokens = {}
  /\ meteoraTokenMetadata = [x \in Ids |-> "none"]
  /\ meteoraSignalLocks = [x \in Ids |-> NoLock]
  /\ meteoraProcessedPools = {}
  /\ meteoraPoolMetadata = [x \in Ids |-> "none"]
  /\ \E start \in {"loop", "cta_loop"} :
       pc = [i \in Inst |-> IF i = 1 THEN start ELSE "stopped"]
  /\ cur = [i \in Inst |-> 1]
  /\ res = [i \in Inst |-> "none"]
  /\ pre = [i \in Inst |-> NoPre]
  /\ lockKeys = [i \in Inst |-> {}]
  /\ sent = [x \in Ids |-> 0]
  /\ abandoned = {}
  /\ rejected = {}
  /\ marked = {}
  /\ count = [i \in Inst |-> 0]
  /\ MonitorInit

NextDegraded ==
  \/ LoopStep(1)
  \/ PairStep(1)
  \/ RedisConnection

SpecDegraded == InitDegraded /\ [][NextDegraded]_vars

\* Instances of the check-then-act bot sharing meteora:processed_tokens.
InitPairs ==
  /\ isReady = TRUE
  /\ signalLocks = [x \in Ids |-> NoLock]
  /\ processedTokens = {}
  /\ tokenMetadata = [x \in Ids |-> "none"]
  /\ meteoraProcessedTokens = {}
  /\ meteoraTokenMetadata = [x \in Ids |-> "none"]
  /\ meteoraSignalLocks = [x \in Ids |-> NoLock]
  /\ meteoraProcessedPools = {}
  /\ meteoraPoolMetadata = [x \in Ids |-> "none"]
  /\ pc = [i \in Inst |-> "cta_loop"]
  /\ cur = [i \in Inst |-> 1]
  /\ res = [i \in Inst |-> "none"]
  /\ pre = [i \in Inst |-> NoPre]
  /\ lockKeys = [i \in Inst |-> {}]
  /\ sent = [x \in Ids |-> 0]
  /\ abandoned = {}
  /\ rejected = {}
  /\ marked = {}
  /\ count = [i \in Inst |-> 0]
  /\ MonitorInit

NextPairs == \E i \in Inst : PairStep(i)

SpecPairs == InitPairs /\ [][NextPairs]_vars

\* The lock-based bot under fair scheduling, in the case C7 describes: every
\* running process keeps taking steps, every identifier keeps appearing in
\* the poll results, passes the filters and its notification is delivered,
\* locks expire, and a process dies only while it holds a claim whose
\* notification it has not sent yet (which can happen finitely often).
FairLoopStep(i) ==
  \/ \E x \in Ids : nextPool(i, x)
  \/ checkAndMark_set(i)
  \/ checkAndMark_sIsMember(i)
  \/ checkAndMark_del(i)
  \/ checkAndMark_sAdd(i)
  \/ checkAndMark_hSet(i)
  \/ checkAndMark_expire(i)
  \/ filters(i, "pass")
  \/ sendPumpSwapTokenSignal(i, TRUE)
  \/ releaseTokenLock(i)

NextFair ==
  \/ \E i \in Inst : FairLoopStep(i)
  \/ \E i \in Inst : MainStep(i)
  \/ \E i \in Inst : HoldsClaim(i) /\ pc[i] \in {"filter", "send"} /\ Crash(i)
  \/ \E x \in Ids : lockExpiry(x)

Fairness ==
  /\ \A i \in Inst : WF_vars(FairLoopStep(i) \/ MainStep(i))
  /\ \A i \in Inst : \A x \in Ids : SF_vars(nextPool(i, x))
  /\ \A x \in Ids : WF_vars(lockExpiry(x))

FairSpec == Init /\ [][NextFair]_vars /\ Fairness

\* The store functions in any order: every caller runs loop iterations and,
\* between them, calls releaseTokenLock and markTokenAsProcessed for any
\* identifier; instances start one after the
\* other through main() with its lock cleanup; locks and metadata expire.
\* Redis stays reachable.
NextStore ==
  \/ \E i \in Inst : LoopStep(i)
  \/ \E i \in Inst : StoreCall(i)
  \/ \E i \in Inst : MainStep(i)
  \/ \E x \in Ids : lockExpiry(x)
  \/ \E x \in Ids : MetadataExpiry(x)

SpecStore == Init /\ [][NextStore]_vars

\* The lock-based bot within the lifetime of its locks: processes start, poll,
\* die and restart, and every step happens before any lock's 600 s ran out.
NextLease ==
  \/ \E i \in Inst : LoopStep(i)
  \/ \E i \in Inst : MainStep(i)
  \/ \E i \in Inst : Crash(i)

SpecLease == Init /\ [][NextLease]_vars

\* Any sequence of checkAndMark, releaseTokenLock, markTokenAsProcessed and
\* getProcessedTokensCount calls, by callers running side by side, with
\* repeated identifiers.  Redis stays reachable.
NextCount ==
  \/ \E i \in Inst : LoopStep(i)
  \/ \E i \in Inst : StoreCall(i)
  \/ \E i \in Inst : CountCall(i)

SpecCount == InitRace /\ [][NextCount]_vars

\* Two bots on one Redis server: odd instances run the lock-based bot of
\* src/bot1.js (prefix raydium_bot1), even instances the pool bot of src/bot.js
\* (prefix meteora); both start through main() and find whatever locks dead
\* processes left under either prefix.  Redis stays reachable.
RunsPoolBot(i) == i % 2 = 0

InitNamespaces ==
  /\ isReady = TRUE
  /\ signalLocks \in [Ids -> {NoLock, [owner |-> Orphan, ex |-> LOCK_EX]}]
  /\ processedTokens = {}
  /\ tokenMetadata = [x \in Ids |-> "none"]
  /\ meteoraProcessedTokens = {}
  /\ meteoraTokenMetadata = [x \in Ids |-> "none"]
  /\ meteoraSignalLocks \in [Ids -> {NoLock, [owner |-> Orphan, ex |-> LOCK_EX]}]
  /\ meteoraProcessedPools = {}
  /\ meteoraPoolMetadata = [x \in Ids |-> "none"]
  /\ pc = [i \in Inst |-> IF RunsPoolBot(i) THEN "pool_main" ELSE "stopped"]
  /\ cur = [i \in Inst |-> 1]
  /\ res = [i \in Inst |-> "none"]
  /\ pre = [i \in Inst |-> NoPre]
  /\ lockKeys = [i \in Inst |-> {}]
  /\ sent = [x \in Ids |-> 0]
  /\ abandoned = {}
  /\ rejected = {}
  /\ marked = {}
  /\ count = [i \in Inst |-> 0]
  /\ MonitorInit

NextNamespaces ==
  \/ \E i \in Inst : LoopStep(i)
  \/ \E i \in Inst : MainStep(i)
  \/ \E i \in Inst : PoolStep(i)

SpecNamespaces == InitNamespaces /\ [][NextNamespaces]_vars

\* Degraded operation of every store function: one running process makes loop
\* iterations and calls releaseTokenLock, markTokenAsProcessed and
\* getProcessedTokensCount while its connection to Redis comes and goes
\* between any two of its calls.
NextFailure ==
  \/ LoopStep(1)
  \/ PairStep(1)
  \/ StoreCall(1)
  \/ CountCall(1)
  \/ RedisConnection

SpecFailure == InitDegraded /\ [][NextFailure]_vars

\* extractPoolData: baseTokenAddress is null when the pool has no base token
\* id; the template string of the lock key turns it into the suffix "null".
NullId == NumIds

\* Callers poll pages on which a pool without base token id appears among the
\* others.  Given null where it wants a string, the Redis client either
\* throws, which the catch block turns into `return false`, or sends the
\* text "null"; Redis stays reachable.
NextInvalid ==
  \E i \in Inst :
    \/ LoopStep(i)
    \/ cur[i] = NullId /\ checkAndMark_catch(i)

SpecInvalid == InitRace /\ [][NextInvalid]_vars

\* The steps of a polling cycle that await Redis: the client is created with
\* a reconnect strategy and no command timeout, and no call is raced against
\* a timer.
RedisCall(i) ==
  \/ checkAndMark_set(i)
  \/ checkAndMark_sIsMember(i)
  \/ checkAndMark_del(i)
  \/ checkAndMark_sAdd(i)
  \/ checkAndMark_hSet(i)
  \/ checkAndMark_expire(i)
  \/ releaseTokenLock(i)

\* The steps that await nothing or a call bounded by a timer: the page fetch
\* through axiosWithTimeout (15 s), the filters, and bot.sendMessage raced
\* against a 10 s timeout; a call that timed out counts as failed.
BoundedStep(i) ==
  \/ \E x \in Ids : nextPool(i, x)
  \/ \E o \in {"pass", "reject"} : filters(i, o)
  \/ \E d \in BOOLEAN : sendPumpSwapTokenSignal(i, d)

\* Polling cycles during which Redis may stop answering for good.  A step
\* that awaits Redis is taken only when Redis answers; every process keeps
\* running, so a step that can be taken is taken.
NextStall ==
  \/ \E i \in Inst : BoundedStep(i)
  \/ \E i \in Inst : ~stalled /\ RedisCall(i)
  \/ RedisStalls

FairnessStall ==
  \A i \in Inst : WF_vars(BoundedStep(i) \/ (~stalled /\ RedisCall(i)))

SpecStall == InitRace /\ [][NextStall]_vars /\ FairnessStall

\* What the API can report for a pool, on both sides of every threshold.
PoolInputs ==
  [dexId : {"pumpswap", "meteora"}, extracted : BOOLEAN,
   age : {maxAgeMinutes, maxAgeMinutes + 1},
   reserveUsd : {minLiquidity - 1, minLiquidity}]

\* One process starts at the given position and polls pages whose pools have
\* any of the given attributes; Redis is reachable.
InitOne(start, inputs) ==
  /\ isReady = TRUE
  /\ signalLocks = [x \in Ids |-> NoLock]
  /\ processedTokens = {}
  /\ tokenMetadata = [x \in Ids |-> "none"]
  /\ meteoraProcessedTokens = {}
  /\ meteoraTokenMetadata = [x \in Ids |-> "none"]
  /\ meteoraSignalLocks = [x \in Ids |-> NoLock]
  /\ meteoraProcessedPools = {}
  /\ meteoraPoolMetadata = [x \in Ids |-> "none"]
  /\ pc = [i \in Inst |-> IF i = 1 THEN start ELSE "stopped"]
  /\ cur = [i \in Inst |-> 1]
  /\ res = [i \in Inst |-> "none"]
  /\ pre = [i \in Inst |-> NoPre]
  /\ lockKeys = [i \in Inst |-> {}]
  /\ sent = [x \in Ids |-> 0]
  /\ abandoned = {}
  /\ rejected = {}
  /\ marked = {}
  /\ count = [i \in Inst |-> 0]
  /\ stalled = FALSE
  /\ unsent = {}
  /\ pools \in [Ids -> inputs]
  /\ CycleInit
  /\ BoostedInit

InitPoller(inputs) == InitOne("loop", inputs)

InitFilters == InitPoller(PoolInputs)

NextFilters ==
  \/ \E x \in Ids : nextPumpSwapPool(1, x)
  \/ checkAndMark_set(1)
  \/ checkAndMark_sIsMember(1)
  \/ checkAndMark_del(1)
  \/ checkAndMark_sAdd(1)
  \/ checkAndMark_hSet(1)
  \/ checkAndMark_expire(1)
  \/ pumpSwapFilters(1)
  \/ \E d \in BOOLEAN : sendPumpSwapTokenSignal(1, d)
  \/ releaseTokenLock(1)

SpecFilters == InitFilters /\ [][NextFilters]_vars

\* What GeckoTerminal can report for a Meteora pool, on both sides of every
\* threshold the graduate variant announces.
GraduateInputs ==
  [dexId : {"meteora"}, extracted : {TRUE},
   age : {maxAgeHours, maxAgeHours + 1},
   fdvUsd : {maxMarketCap, maxMarketCap + 1},
   priceChange24h : {-1, 1},
   reserveUsd : {graduate_minLiquidity - 1, graduate_minLiquidity}]

\* What checkTokenPoolAge and checkRaydiumPools can return.
PoolAgeInfos == [hasValidPools : BOOLEAN, oldestPoolAgeHours : {24, 25}]
RaydiumPools == [hasRaydiumLaunchlab : BOOLEAN, hasRaydiumCPMM : BOOLEAN]

InitGraduate == InitPoller(GraduateInputs)

NextGraduate ==
  \/ \E x \in Ids : nextGraduatePool(1, x)
  \/ checkAndMark_set(1)
  \/ checkAndMark_sIsMember(1)
  \/ checkAndMark_del(1)
  \/ checkAndMark_sAdd(1)
  \/ checkAndMark_hSet(1)
  \/ checkAndMark_expire(1)
  \/ \E a \in PoolAgeInfos : \E r \in RaydiumPools : graduateFilters(1, a, r)
  \/ \E d \in BOOLEAN : sendPumpSwapTokenSignal(1, d)
  \/ releaseTokenLock(1)

SpecGraduate == InitGraduate /\ [][NextGraduate]_vars

\* One monitoring loop runs from its first cycle on: an odd instance runs
\* monitorPumpSwapTokens of src/bot1.js, an even one monitorMeteoraPools of
\* the graduate variant.  Page fetches succeed or fail, pools are processed,
\* and a statement of the loop may throw with any HTTP status attached.
RunsGraduate(i) == i % 2 = 0

Statuses == {0, 429, 500}

InitMonitor ==
  /\ isReady = TRUE
  /\ signalLocks = [x \in Ids |-> NoLock]
  /\ processedTokens = {}
  /\ tokenMetadata = [x \in Ids |-> "none"]
  /\ meteoraProcessedTokens = {}
  /\ meteoraTokenMetadata = [x \in Ids |-> "none"]
  /\ meteoraSignalLocks = [x \in Ids |-> NoLock]
  /\ meteoraProcessedPools = {}
  /\ meteoraPoolMetadata = [x \in Ids |-> "none"]
  /\ \E r \in Inst :
       pc = [i \in Inst |-> IF i # r THEN "stopped"
                             ELSE IF RunsGraduate(i) THEN "g_cycle" ELSE "cycle"]
  /\ cur = [i \in Inst |-> 1]
  /\ res = [i \in Inst |-> "none"]
  /\ pre = [i \in Inst |-> NoPre]
  /\ lockKeys = [i \in Inst |-> {}]
  /\ sent = [x \in Ids |-> 0]
  /\ abandoned = {}
  /\ rejected = {}
  /\ marked = {}
  /\ count = [i \in Inst |-> 0]
  /\ MonitorInit

MonitorStep(i) ==
  \/ startCycle(i)
  \/ \E ok \in BOOLEAN : fetchNewPoolsFromPage(i, ok)
  \/ endOfPage(i)
  \/ endOfCycle(i)
  \/ \E st \in Statuses : criticalError(i, st)
  \/ sleepDone(i)

GraduateStep(i) ==
  \/ \E anyOk, found \in BOOLEAN : fetchAllNewPools(i, anyOk, found)
  \/ graduate_endOfPools(i)
  \/ graduate_endOfCycle(i)
  \/ \E st \in Statuses : graduate_criticalError(i, st)
  \/ graduate_sleepDone(i)

NextMonitor ==
  \/ \E i \in Inst : LoopStep(i)
  \/ \E i \in Inst : ~RunsGraduate(i) /\ MonitorStep(i)
  \/ \E i \in Inst : RunsGraduate(i) /\ GraduateStep(i)

SpecMonitor == InitMonitor /\ [][NextMonitor]_vars

\* Instances of the lock-based bot whose notifications are delivered or fail:
\* processes start, poll, die and restart, locks expire, Redis stays
\* reachable.
RetryLoopStep(i) ==
  \/ \E x \in Ids : nextPool(i, x)
  \/ checkAndMark_set(i)
  \/ checkAndMark_sIsMember(i)
  \/ checkAndMark_del(i)
  \/ checkAndMark_sAdd(i)
  \/ checkAndMark_hSet(i)
  \/ checkAndMark_expire(i)
  \/ \E o \in {"pass", "reject"} : filters(i, o)
  \/ sendPumpSwapTokenSignal(i, TRUE)
  \/ sendPumpSwapTokenSignal_failed(i)
  \/ releaseTokenLock(i)

NextRetry ==
  \/ \E i \in Inst : RetryLoopStep(i)
  \/ \E i \in Inst : MainStep(i)
  \/ \E i \in Inst : Crash(i)
  \/ \E x \in Ids : lockExpiry(x)

SpecRetry == Init /\ [][NextRetry]_vars

\* One instance of the check-then-act bot alone on its Redis, which stays
\* reachable: every token of the fetched lists goes through one iteration of
\* monitorMeteoraPairs, whichever way the filters decide.  The store starts
\* with what earlier runs left in it: any tokens in the Processed Set, each
\* with its metadata hash absent, stored or already carrying its expiry.
InitSinglePairs ==
  /\ isReady = TRUE
  /\ signalLocks = [x \in Ids |-> NoLock]
  /\ processedTokens = {}
  /\ tokenMetadata = [x \in Ids |-> "none"]
  /\ meteoraProcessedTokens \in SUBSET Ids
  /\ meteoraTokenMetadata \in [Ids -> {"none", "stored", "expiring"}]
  /\ \A x \in Ids : x \notin meteoraProcessedTokens => meteoraTokenMetadata[x] = "none"
  /\ meteoraSignalLocks = [x \in Ids |-> NoLock]
  /\ meteoraProcessedPools = {}
  /\ meteoraPoolMetadata = [x \in Ids |-> "none"]
  /\ pc = [i \in Inst |-> IF i = 1 THEN "cta_loop" ELSE "stopped"]
  /\ cur = [i \in Inst |-> 1]
  /\ res = [i \in Inst |-> "none"]
  /\ pre = [i \in Inst |-> NoPre]
  /\ lockKeys = [i \in Inst |-> {}]
  /\ sent = [x \in Ids |-> 0]
  /\ abandoned = {}
  /\ rejected = {}
  /\ marked = {}
  /\ count = [i \in Inst |-> 0]
  /\ MonitorInit

NextSinglePairs == PairStep(1)

SpecSinglePairs == InitSinglePairs /\ [][NextSinglePairs]_vars

\* ------------------------------------------------------------------ claims

InCheckAndMark(i) ==
  pc[i] \in {"cm_set", "cm_sismember", "cm_del", "cm_sadd", "cm_hset", "cm_expire"}

\* C1: with Redis reachable, whatever the interleaving of polling cycles,
\* process deaths, restarts with their startup lock cleanup and lock
\* expiries, at most one notification is sent for every identifier.
C1_AtMostOnceNotification == \A x \in Ids : sent[x] <= 1

\* C2: when N callers race checkAndMark on identifiers that are neither locked
\* nor processed, no two of them get "claimed" for the same identifier, and
\* once all callers of an identifier have returned exactly one of them got
\* "claimed" and every other one got a skip result.
C2_MutualExclusion ==
  \A x \in Ids :
    LET returned == {i \in Inst : cur[i] = x /\ res[i] # "none"}
        running == {i \in Inst : cur[i] = x /\ InCheckAndMark(i)}
        winners == {i \in returned : res[i] = "claimed"}
    IN /\ Cardinality(winners) <= 1
       /\ \A i \in returned \ winners : res[i] \in {"locked", "processed"}
       /\ (returned # {} /\ running = {}) => Cardinality(winners) = 1

C2_Witness ==
  \E i, j \in Inst :
    /\ i # j /\ cur[i] = cur[j]
    /\ res[i] = "claimed" /\ res[j] \in {"locked", "processed"}

\* C3: checkAndMark is one indivisible step: a call on an identifier that was
\* in the processed set when the call's SET ran (a call that will not return
\* "claimed") never has a lock of its own in the store.
C3_NoTransientLock ==
  \A i \in Inst :
    (InCheckAndMark(i) /\ pre[i].proc) => signalLocks[cur[i]].owner # i

\* C4: a caller running alone gets "locked" (skip) iff a lock existed,
\* otherwise "processed" (skip) iff the identifier was in the processed set,
\* otherwise "claimed" (proceed); the returned boolean is true iff a lock
\* existed or the identifier was processed; and while the caller proceeds
\* after "claimed" the store holds its lock with the 600 s expiry.
C4_ResultIsFunctionOfStore ==
  \A i \in Inst :
    res[i] # "none" =>
      /\ res[i] = (IF pre[i].lock THEN "locked"
                   ELSE IF pre[i].proc THEN "processed" ELSE "claimed")
      /\ ReturnValue(res[i]) <=> (pre[i].lock \/ pre[i].proc)
      /\ (res[i] = "claimed" /\ pc[i] \in {"filter", "send", "release"})
            => signalLocks[cur[i]] = [owner |-> i, ex |-> LOCK_EX]

C4_Witness ==
  \E i \in Inst :
    /\ res[i] = "claimed" /\ pc[i] = "filter"
    /\ ~pre[i].lock /\ ~pre[i].proc
    /\ signalLocks[cur[i]] = [owner |-> i, ex |-> LOCK_EX]

\* C5 as stated: every checkAndMark call that runs after the identifier was
\* added to the processed set returns "processed" (AlreadyProcessed).
C5_AlwaysAlreadyProcessed ==
  \A i \in Inst : (pre[i].proc /\ res[i] # "none") => res[i] = "processed"

\* C5 as amended: with Redis reachable, a checkAndMark call that runs after
\* the identifier was added to the processed set never returns "claimed"; it
\* returns "locked" when a lock exists at its SET and "processed" otherwise.
C5_NeverClaimedAgain ==
  \A i \in Inst :
    (pre[i].proc /\ res[i] # "none") =>
      res[i] = (IF pre[i].lock THEN "locked" ELSE "processed")

C5_Witness ==
  \E i, j \in Inst :
    /\ pre[i].proc /\ res[i] = "processed"
    /\ pre[j].proc /\ res[j] = "locked"

\* C6: after a claimant that got "claimed" died without releasing, and the lock
\* is gone (its lease expired), the next checkAndMark on that identifier
\* returns "claimed".
C6_LeaseExpiryRecovery ==
  \A j \in Inst :
    (pre[j].aband /\ ~pre[j].lock /\ res[j] # "none") => res[j] = "claimed"

\* C7: when the holder of a claim dies before the notification was sent,
\* a notification for that identifier is eventually sent.
C7_NoWorkLost ==
  \A x \in Ids : (x \in abandoned /\ sent[x] = 0) ~> (sent[x] > 0)

\* C8: a step of checkAndMark or of isTokenProcessed taken while Redis is
\* unreachable ends the call with "not processed, proceed": the loop goes on
\* to the filters.
C8_FailOpen ==
  [][\A i \in Inst :
       (~isReady /\ pc'[i] # pc[i]) =>
         /\ InCheckAndMark(i) => (res'[i] = "failopen" /\ pc'[i] = "filter")
         /\ pc[i] = "cta_check" => (res'[i] = "failopen" /\ pc'[i] = "cta_filter")
    ]_vars

\* An identifier notified a second time by a call that failed open.
C8_Witness ==
  \E i \in Inst : res[i] = "failopen" /\ sent[cur[i]] = 2

\* C9: a lock is deleted or replaced only by the process that created it, or
\* by its own expiry.
C9_ExclusiveOwnership ==
  [][\A x \in Ids :
       (signalLocks[x] # NoLock /\ signalLocks'[x] # signalLocks[x]) =>
         \/ pc' = pc                                   \* lockExpiry
         \/ LET o == signalLocks[x].owner IN
              /\ o \in Inst
              /\ pc'[o] # pc[o]
              /\ \/ pc[o] \in {"cm_del", "release"} /\ cur[o] = x
                 \/ pc'[o] = "stopped"                 \* the owner died
    ]_vars

\* C10: two instances of the check-then-act loop never both pass the
\* "already processed?" gate for the same identifier.
PassedGate(i) == pc[i] \in {"cta_filter", "cta_send", "mk_sadd", "mk_hset", "mk_expire"}

C10_GateIsExclusive ==
  \A i, j \in Inst :
    (i # j /\ PassedGate(i) /\ PassedGate(j)) => cur[i] # cur[j]

C13_ReleaseIdempotentAndFramed ==
  [][\A i \in Inst :
       (pc[i] = "release" /\ pc'[i] # "release") =>
         /\ pc'[i] = "loop"
         /\ signalLocks'[cur[i]] = NoLock
         /\ \A y \in Ids \ {cur[i]} : signalLocks'[y] = signalLocks[y]
         /\ signalLocks[cur[i]] = NoLock => signalLocks' = signalLocks
         /\ processedTokens' = processedTokens
         /\ tokenMetadata' = tokenMetadata
         /\ Meteora' = Meteora
    ]_vars

\* releaseTokenLock has returned from a call for an identifier that was never
\* claimed, while another identifier is processed and locked.
C13_Witness ==
  \E i \in Inst : \E y \in Ids :
    /\ pc[i] = "loop" /\ res[i] = "release"
    /\ cur[i] \notin processedTokens /\ signalLocks[cur[i]] = NoLock
    /\ y # cur[i] /\ y \in processedTokens /\ signalLocks[y] # NoLock

MarkPcs == {"mp_sadd", "mp_hset", "mp_expire"}

\* C14: markTokenAsProcessed(X) puts X in the processed set whether or not a
\* lock on X exists and whoever holds it, leaves every other member in the
\* set, changes nothing when X is already a member, and creates, deletes or
\* changes no lock.
C14_MarkUnconditionalIdempotent ==
  [][\A i \in Inst :
       (pc[i] \in MarkPcs /\ pc'[i] # pc[i]) =>
         /\ processedTokens' = processedTokens \cup {cur[i]}
         /\ cur[i] \in processedTokens'
         /\ cur[i] \in processedTokens => processedTokens' = processedTokens
         /\ signalLocks' = signalLocks
    ]_vars

\* markTokenAsProcessed returned true for an identifier another instance
\* holds the claim on (which had put it in the processed set already).
C14_Witness ==
  \E i, j \in Inst :
    /\ i # j /\ pc[i] = "loop" /\ res[i] = "marked"
    /\ HoldsClaim(j) /\ cur[j] = cur[i]
    /\ cur[i] \in processedTokens

\* C15: no step of any operation (checkAndMark, markTokenAsProcessed,
\* releaseTokenLock, getProcessedTokensCount, lock expiry, metadata expiry,
\* the lock cleanup of main()) removes an identifier from a processed set.
C15_ProcessedSetAppendOnly ==
  [][/\ processedTokens \subseteq processedTokens'
     /\ meteoraProcessedTokens \subseteq meteoraProcessedTokens'
    ]_vars

\* Every identifier is still in the processed set after its lock was released
\* or cleaned up and its metadata expired.
C15_Witness ==
  /\ processedTokens = Ids
  /\ \A x \in Ids : signalLocks[x] = NoLock /\ tokenMetadata[x] = "none"
  /\ \A i \in Inst : pc[i] = "loop"

\* A caller that has passed the membership test of checkAndMark with "not a
\* member": it is about to get, or has got, "claimed" and works under its lock.
Claimant(o) == pc[o] \in {"cm_sadd", "cm_hset", "cm_expire", "filter", "send", "release"}

\* C16: a checkAndMark call that returns "locked" or "processed" changes
\* nothing: the step it returns with leaves the processed set and the
\* metadata unchanged, and leaves the lock of every claimant in place.
C16_RefusedTryClaimChangesNothing ==
  [][\A i \in Inst :
       (InCheckAndMark(i) /\ res'[i] \in {"locked", "processed"}) =>
         /\ processedTokens' = processedTokens
         /\ tokenMetadata' = tokenMetadata
         /\ \A o \in Inst \ {i} :
              (Claimant(o) /\ signalLocks[cur[o]].owner = o)
                 => signalLocks'[cur[o]] = signalLocks[cur[o]]
    ]_vars

\* C17: the notification for X is attempted only by an instance whose
\* checkAndMark(X) returned "claimed", and at that moment the lock on X in
\* Redis is the one this instance created; releaseTokenLock follows the send.
C17_NotifyUnderClaim ==
  [][\A i \in Inst :
       (pc[i] = "send" /\ pc'[i] # pc[i] /\ pc'[i] # "stopped") =>
         /\ res[i] = "claimed"
         /\ signalLocks[cur[i]].owner = i
         /\ pc'[i] = "release"
    ]_vars

Quiescent ==
  \A j \in Inst : pc[j] \notin {"cm_hset", "cm_expire", "mp_hset", "mp_expire"}

SuccessOutcomes == {"claimed", "locked", "processed"}

C22_InvalidIdentifierRejected ==
  /\ signalLocks[NullId] = NoLock
  /\ NullId \notin processedTokens
  /\ sent[NullId] = 0

\* C23: every external call is bounded, so whichever service stops answering,
\* the iteration a process has begun ends and the process is back in its loop.
C23_EveryCycleCompletes ==
  \A i \in Inst : (pc[i] # "loop") ~> (pc[i] = "loop")

C25_CleanupSparesLiveLocks ==
  [][\A i \in Inst :
       (pc[i] = "main_del" /\ pc'[i] = "loop") =>
         \A x \in Ids :
           (signalLocks[x].owner \in Inst \ {i}) => signalLocks'[x] = signalLocks[x]
    ]_vars

C27_NotifyOnlyAnnouncedFilters ==
  \A i \in Inst :
    pc[i] = "send" =>
      LET pool == pools[cur[i]] IN
      /\ pool.age <= maxAgeHours
      /\ pool.priceChange24h > 0
      /\ pool.fdvUsd <= maxMarketCap
      /\ pool.reserveUsd >= graduate_minLiquidity

\* C28: in monitorPumpSwapTokens a cycle that fetched data resets errorCount
\* to 0, and a cycle in which every page fetch failed increments errorCount
\* and waits longer than CYCLE_DELAY.
C28_FailedCycleCountsAsError ==
  [][\A i \in Inst :
       (pc[i] = "cycle_end" /\ pc'[i] = "sleep") =>
         /\ fetched[i] => errorCount'[i] = 0
         /\ ~fetched[i] =>
              /\ errorCount'[i] = errorCount[i] + 1
              /\ waitTime'[i] > CYCLE_DELAY
    ]_vars

\* C29: after a cycle that completes without a critical error the wait is
\* 60000 ms when errorCount is 0 and min(60000 + errorCount * 30000, 300000)
\* ms otherwise, always within [60000, 300000]; after a critical error it is
\* 300000 ms for an HTTP 429 and 120000 ms otherwise.
C29_BoundedBackoff ==
  [][\A i \in Inst :
       /\ ( \/ pc[i] = "cycle_end" /\ pc'[i] = "sleep"
            \/ pc[i] = "g_cycle_end" /\ pc'[i] = "g_sleep" ) =>
            /\ errorCount'[i] >= 0
            /\ waitTime'[i] = IF errorCount'[i] = 0 THEN 60000
                               ELSE Min(60000 + errorCount'[i] * 30000, 300000)
            /\ waitTime'[i] >= 60000 /\ waitTime'[i] <= 300000
       /\ (pc'[i] \in {"recover", "g_recover"} /\ pc'[i] # pc[i]) =>
            waitTime'[i] = IF status'[i] = 429 THEN 300000 ELSE 120000
    ]_vars

\* After nine cycles without pools the graduate loop waits the capped 300000
\* ms, where the uncapped sum would be 330000.
C29_Witness ==
  \E i \in Inst :
    /\ pc[i] = "g_sleep" /\ errorCount[i] = 9
    /\ waitTime[i] = 300000 /\ CYCLE_DELAY + errorCount[i] * 30000 > 300000

\* C30: with Redis reachable, when checkAndMarkTokenAsProcessed or
\* checkAndMarkPoolAsProcessed has returned "proceed", the identifier is in
\* the processed set of its bot before the filters run and while the
\* notification is sent; so every identifier notified is in a processed set.
C30_ProceedImpliesProcessed ==
  /\ \A i \in Inst :
       /\ pc[i] \in {"filter", "send"} =>
            (res[i] = "claimed" /\ cur[i] \in processedTokens)
       /\ pc[i] \in {"pool_filter", "pool_send"} =>
            (res[i] = "claimed" /\ cur[i] \in meteoraProcessedPools)
  /\ \A x \in Ids :
       sent[x] > 0 => (x \in processedTokens \/ x \in meteoraProcessedPools)

\* Both bots are about to notify, each for an identifier it has just put in
\* its processed set, after an earlier notification.
C30_Witness ==
  \E i, j \in Inst :
    /\ pc[i] = "send" /\ cur[i] \in processedTokens
    /\ pc[j] = "pool_send" /\ cur[j] \in meteoraProcessedPools
    /\ \E x \in Ids : sent[x] > 0

C32_EveryIterationMarks ==
  /\ [][\A i \in Inst :
          /\ (PassedGate(i) /\ pc'[i] = "cta_loop") =>
               cur[i] \in meteoraProcessedTokens'
          /\ (pc[i] = "cta_check" /\ pc'[i] = "cta_filter") =>
               cur[i] \notin meteoraProcessedTokens
          /\ meteoraProcessedTokens \subseteq meteoraProcessedTokens'
       ]_vars
  /\ [](\A x \in Ids : sent[x] <= 1)
  /\ [](\A x \in Ids : sent[x] > 0 =>
          (x \in meteoraProcessedTokens \/ \E i \in Inst : PassedGate(i) /\ cur[i] = x))

\* One token was filtered out and never notified, the other was notified;
\* both are in the processed set and the instance has just skipped one.
C32_Witness ==
  \E i \in Inst : \E x \in Ids :
    /\ meteoraProcessedTokens = Ids
    /\ sent[x] = 0 /\ \E y \in Ids : sent[y] = 1
    /\ pc[i] = "cta_loop" /\ res[i] = "processed" /\ cur[i] = x

\* ---------------------------------------------------------------------------
\* The in-memory variant: monitorBoostedTokens with state.processedTokens
\* ---------------------------------------------------------------------------

MaxList == 2        \* longest list one fetch of the boosted feed returns
Undefined == 0      \* a field the feed item does not carry

\* Set.prototype.has and Set.prototype.add on state.processedTokens.
SetHas(S, x) == x \in S

SetAdd_noop(S, x) == S

SetAdd(S, x) == S \cup {x}

\* An item of the boosted feed as the code reads it: chainId, and the two
\* fields the loop looks at for the address.  Every item names its token in at
\* least one of them.
BoostedItems ==
  {p \in [chainId : {"solana", "other"},
          tokenAddress : Ids \cup {Undefined},
          address : Ids \cup {Undefined}] :
     p.tokenAddress # Undefined \/ p.address # Undefined}

RECURSIVE SeqsUpTo(_, _)
SeqsUpTo(S, n) ==
  IF n = 0 THEN {<<>>}
  ELSE LET shorter == SeqsUpTo(S, n - 1)
       IN shorter \cup {Append(q, e) : q \in shorter, e \in S}

BoostedLists == SeqsUpTo(BoostedItems, MaxList)

\* const tokenAddress = token.tokenAddress || token.address
TokenAddress(token) ==
  IF token.tokenAddress # Undefined THEN token.tokenAddress ELSE token.address

\* The two filters fetchBoostedTokens applies to response.data: the chain, and
\* the Set looked up with the item's address field.
KeepBoosted(i, p) == p.chainId = "solana" /\ ~SetHas(state[i].processedTokens, p.address)

\* fetchBoostedTokens: the feed answers with data, or the request fails and the
\* catch returns [].
fetchBoostedTokens(i, data) ==
  /\ pc[i] = "b_cycle"
  /\ boostedTokens' = [boostedTokens EXCEPT ![i] = SelectSeq(data, LAMBDA p : KeepBoosted(i, p))]
  /\ pc' = [pc EXCEPT ![i] = "b_loop"]
  /\ UNCHANGED <<isReady, stalled, unsent, pools, Cycle, state, unfetched, Store, Meteora,
                 cur, res, pre, lockKeys, sent, History>>

\* for (const token of boostedTokens): the next token and the test
\* state.processedTokens.has(tokenAddress), which skips the token.
nextBoostedToken(i) ==
  /\ pc[i] = "b_loop"
  /\ boostedTokens[i] # <<>>
  /\ LET tokenAddress == TokenAddress(Head(boostedTokens[i]))
         has == SetHas(state[i].processedTokens, tokenAddress)
     IN /\ cur' = [cur EXCEPT ![i] = tokenAddress]
        /\ res' = [res EXCEPT ![i] = IF has THEN "processed" ELSE "none"]
        /\ pc' = [pc EXCEPT ![i] = IF has THEN "b_loop" ELSE "b_fetch"]
  /\ boostedTokens' = [boostedTokens EXCEPT ![i] = Tail(@)]
  /\ UNCHANGED <<isReady, stalled, unsent, pools, Cycle, state, unfetched, Store, Meteora,
                 pre, lockKeys, sent, History>>

\* The list is exhausted: 'Completed monitoring cycle', sleep(30000) and the
\* next round of while (true).
completedCycle(i) ==
  /\ pc[i] = "b_loop"
  /\ boostedTokens[i] = <<>>
  /\ pc' = [pc EXCEPT ![i] = "b_cycle"]
  /\ UNCHANGED <<isReady, Monitor, Store, Meteora, cur, res, pre, lockKeys, sent, History>>

\* fetchTokenPairDetails and if (!tokenData) continue.
fetchTokenPairDetails(i, tokenData) ==
  /\ pc[i] = "b_fetch"
  /\ pc' = [pc EXCEPT ![i] = IF tokenData THEN "b_pool" ELSE "b_loop"]
  /\ unfetched' = IF tokenData THEN unfetched ELSE unfetched \cup {cur[i]}
  /\ UNCHANGED <<isReady, stalled, unsent, pools, Cycle, state, boostedTokens, Store,
                 Meteora, cur, res, pre, lockKeys, sent, History>>

\* checkMeteoraPool: a Meteora pair, or null (none found, or the request failed).
checkMeteoraPool(i, meteoraPair) ==
  /\ pc[i] = "b_pool"
  /\ pc' = [pc EXCEPT ![i] = IF meteoraPair THEN "b_safety" ELSE "b_add"]
  /\ UNCHANGED <<isReady, Monitor, Store, Meteora, cur, res, pre, lockKeys, sent, History>>

\* checkTokenSafety: isSafe, false also when the RugCheck request failed.
checkTokenSafety(i, isSafe) ==
  /\ pc[i] = "b_safety"
  /\ pc' = [pc EXCEPT ![i] = IF isSafe THEN "b_send" ELSE "b_add"]
  /\ UNCHANGED <<isReady, Monitor, Store, Meteora, cur, res, pre, lockKeys, sent, History>>

\* sendMeteoraSignal of the in-memory variant: it catches every error, so the
\* loop goes on whether or not the message was delivered.
boosted_sendMeteoraSignal(i, delivered) ==
  /\ pc[i] = "b_send"
  /\ sent' = IF delivered THEN [sent EXCEPT ![cur[i]] = Min(@ + 1, MaxSent)] ELSE sent
  /\ pc' = [pc EXCEPT ![i] = "b_add"]
  /\ UNCHANGED <<isReady, Monitor, Store, Meteora, cur, res, pre, lockKeys, History>>

\* state.processedTokens.add(tokenAddress), the last statement of the iteration
\* before the rate-limiting sleep.
processedTokens_add(i) ==
  /\ pc[i] = "b_add"
  /\ state' = [state EXCEPT ![i].processedTokens = SetAdd(@, cur[i])]
  /\ pc' = [pc EXCEPT ![i] = "b_loop"]
  /\ UNCHANGED <<isReady, stalled, unsent, pools, Cycle, boostedTokens, unfetched, Store,
                 Meteora, cur, res, pre, lockKeys, sent, History>>

BoostedStep(i) ==
  \/ \E data \in BoostedLists : fetchBoostedTokens(i, data)
  \/ nextBoostedToken(i)
  \/ completedCycle(i)
  \/ \E tokenData \in BOOLEAN : fetchTokenPairDetails(i, tokenData)
  \/ \E meteoraPair \in BOOLEAN : checkMeteoraPool(i, meteoraPair)
  \/ \E isSafe \in BOOLEAN : checkTokenSafety(i, isSafe)
  \/ \E delivered \in BOOLEAN : boosted_sendMeteoraSignal(i, delivered)
  \/ processedTokens_add(i)

\* One process runs monitorBoostedTokens from its start; the feed, the pair
\* details, the pool lookup, the safety report and Telegram answer as they like.
InitBoosted == InitOne("b_cycle", {FreshPool})

NextBoosted == BoostedStep(1)

SpecBoosted == InitBoosted /\ [][NextBoosted]_vars

\* C33: in the in-memory variant one running process sends at most one
\* notification per token address over its whole run, also when the address is
\* several times in one fetched list or comes back in later cycles; an address
\* enters state.processedTokens only by the add that ends an iteration, after
\* the Meteora and safety checks of that iteration; an iteration whose pair
\* details could not be fetched adds nothing, and the loop skips a token of a
\* fetched list only when its address is in the Set, so such an address is
\* taken up again when a later list carries it.
C33_OneSignalPerAddressInMemory ==
  /\ [](\A x \in Ids : sent[x] <= 1)
  /\ [](\A x \in Ids : sent[x] > 0 =>
          \/ x \in state[1].processedTokens
          \/ pc[1] = "b_add" /\ cur[1] = x)
  /\ [][\A i \in Inst :
         /\ state'[i] # state[i] =>
              /\ pc[i] = "b_add"
              /\ state'[i].processedTokens = state[i].processedTokens \cup {cur[i]}
         /\ (pc'[i] = "b_add" /\ pc[i] # "b_add") => pc[i] \in {"b_pool", "b_safety", "b_send"}
         /\ (pc[i] = "b_fetch" /\ pc'[i] = "b_loop") =>
              /\ cur[i] \notin state'[i].processedTokens
              /\ cur[i] \in unfetched'
         /\ (pc[i] = "b_loop" /\ boostedTokens[i] # <<>>) =>
              (pc'[i] = "b_fetch" <=>
                 TokenAddress(Head(boostedTokens[i])) \notin state[i].processedTokens)]_vars

\* An address whose pair details could not be fetched in one iteration was
\* taken up again, notified once and added, and a later occurrence of it in a
\* fetched list has just been skipped.
C33_Witness ==
  \E x \in unfetched :
    /\ sent[x] = 1
    /\ x \in state[1].processedTokens
    /\ pc[1] = "b_loop"
    /\ cur[1] = x
    /\ res[1] = "processed"

====
